---- MODULE Spec2Model ----
(***************************************************************************)
(* Model of compute_finantial_model (src/src/buy_vs_rent.py): one call of  *)
(* the buy-versus-rent projection, from argument validation to the         *)
(* returned table of yearly rows.                                          *)
(*                                                                         *)
(* Amounts and rates are exact rationals <<numerator, denominator>> in     *)
(* lowest terms with a positive denominator; the loop counters `years`,    *)
(* `year` and `mortgate_refinancing_years` are integers, as in the source. *)
(* A local variable that has not been assigned yet holds None.             *)
(***************************************************************************)
EXTENDS Integers, Sequences, FiniteSets, TLC

(***************************************************************************)
(* Bounds of the input space.                                              *)
(***************************************************************************)
MaxYears == 3
MaxRefinancingYears == 3

(***************************************************************************)
(* Rational arithmetic standing for the float operators of the source.     *)
(***************************************************************************)
Abs(n) == IF n < 0 THEN -n ELSE n

RECURSIVE GCD(_, _)
GCD(a, b) == IF b = 0 THEN a ELSE GCD(b, a % b)

Norm(n, d) ==
    LET g == GCD(Abs(n), d)
    IN  <<n \div g, d \div g>>

R(n, d) == Norm(n, d)

Zero == <<0, 1>>
One == <<1, 1>>
Twelve == <<12, 1>>

RAdd(a, b) == Norm(a[1] * b[2] + b[1] * a[2], a[2] * b[2])
RSub(a, b) == Norm(a[1] * b[2] - b[1] * a[2], a[2] * b[2])
RMul(a, b) == Norm(a[1] * b[1], a[2] * b[2])
RDiv(a, b) ==
    IF b[1] > 0 THEN Norm(a[1] * b[2], a[2] * b[1])
    ELSE Norm(-(a[1] * b[2]), a[2] * (-b[1]))
RLt(a, b) == a[1] * b[2] < b[1] * a[2]
RLe(a, b) == a[1] * b[2] <= b[1] * a[2]

RECURSIVE RPow(_, _)
RPow(a, k) == IF k = 0 THEN One ELSE RMul(a, RPow(a, k - 1))

\* x ** (1.0 / 12.0) for the bases whose twelfth root is on the grid.
RootGrid == {R(1, 1), R(2, 1)}
Root12(x) == CHOOSE r \in RootGrid : RPow(r, 12) = x

MonthsPerYear == 12

None == <<>>

(***************************************************************************)
(* Arguments of the call.                                                  *)
(***************************************************************************)
BaseParams ==
    [ yearly_inflation_rate          |-> Zero,
      yearly_apartment_raise_rate    |-> Zero,
      mortgage_apartment_price       |-> R(24, 1),
      mortgage_interest_rate         |-> R(1, 2),
      mortgage_down_payment_rate     |-> R(1, 2),
      mortgage_total_fees_rate       |-> R(1, 12),
      mortgage_yearly_repayment_rate |-> R(1, 4),
      mortgate_refinancing_years     |-> 1,
      etf_yearly_return_rate         |-> Zero,
      cold_rent_monthly_cost         |-> R(1, 1),
      cold_rent_yearly_increase_rate |-> Zero,
      initial_capital                |-> R(30, 1),
      monthly_net_income             |-> R(5, 1),
      monthly_spending               |-> R(2, 1),
      yearly_income_increase_rate    |-> Zero,
      years                          |-> 1 ]

Prices == {Zero, R(24, 1)}
DownPaymentRates == {Zero, R(1, 2), One, R(3, 2)}
RepaymentRates == {Zero, R(1, 4), R(1, 2), R(3, 2)}
InterestRates == {Zero, R(1, 2)}
RaiseRates == {Zero, One}

\* The mortgage parameters in every combination, valid or not.
LoanInputs ==
    { [BaseParams EXCEPT
          !.mortgage_apartment_price = pr,
          !.mortgage_down_payment_rate = dr,
          !.mortgage_yearly_repayment_rate = rr,
          !.mortgage_interest_rate = ir,
          !.yearly_apartment_raise_rate = ar,
          !.mortgate_refinancing_years = ry,
          !.years = ys] :
        pr \in Prices, dr \in DownPaymentRates, rr \in RepaymentRates,
        ir \in InterestRates, ar \in RaiseRates,
        ry \in -1 .. MaxRefinancingYears, ys \in 0 .. MaxYears }

\* One argument changed at a time, over every horizon.
YearlyAlternatives ==
    { <<"mortgage_apartment_price", R(-1, 1)>>,
      <<"mortgage_total_fees_rate", R(-1, 12)>>,
      <<"mortgage_total_fees_rate", One>>,
      <<"mortgage_total_fees_rate", Zero>>,
      <<"mortgage_interest_rate", R(-1, 2)>>,
      <<"mortgage_yearly_repayment_rate", R(-1, 4)>>,
      <<"yearly_apartment_raise_rate", R(-1, 1)>>,
      <<"yearly_apartment_raise_rate", R(-1, 2)>>,
      <<"cold_rent_yearly_increase_rate", R(-1, 1)>>,
      <<"cold_rent_yearly_increase_rate", One>>,
      <<"yearly_income_increase_rate", R(-1, 1)>>,
      <<"yearly_income_increase_rate", One>>,
      <<"cold_rent_monthly_cost", R(-1, 1)>>,
      <<"monthly_net_income", R(-1, 1)>>,
      <<"monthly_net_income", Zero>>,
      <<"monthly_spending", R(-1, 1)>>,
      <<"initial_capital", Zero>>,
      <<"initial_capital", R(14, 1)>>,
      <<"etf_yearly_return_rate", R(-1, 1)>>,
      <<"etf_yearly_return_rate", R(-2, 1)>>,
      <<"yearly_inflation_rate", R(-1, 1)>> }

YearlyInputs ==
    { [BaseParams EXCEPT ![a[1]] = a[2], !.years = ys] :
        a \in YearlyAlternatives, ys \in 1 .. MaxYears }

\* Monthly compounding at a non-zero monthly rate, over one year.
MonthlyAlternatives ==
    { <<"etf_yearly_return_rate", R(4095, 1)>>,
      <<"yearly_inflation_rate", R(4095, 1)>> }

MonthlyInputs ==
    { [BaseParams EXCEPT ![a[1]] = a[2]] : a \in MonthlyAlternatives }

Inputs == LoanInputs \cup YearlyInputs \cup MonthlyInputs

VARIABLES
    p,                          \* the arguments of the call
    pc,                         \* position in the function body
    err,                        \* the exception raised: <<type, message>>
    mortgage_down_payment,
    mortgage_total_fees,
    loan_outstanding,
    loan_base,
    invested_capital,
    etf_capital,
    current_monthly_income,
    current_monthly_rent,
    current_monthly_spending,
    monthly_inflation_rate,
    monthly_etf_rate,
    rows,
    year,
    month,                      \* iterations done of `for _ in range(12)`
    property_value,
    monthly_interest_payment,
    monthly_loan_repayment,
    monthly_apartment_spend,
    monthly_leftover,
    property_equity,
    estimated_total_capital

derived == <<mortgage_down_payment, mortgage_total_fees>>
loan == <<loan_outstanding, loan_base>>
capital == <<invested_capital, etf_capital>>
cashflow == <<current_monthly_income, current_monthly_rent, current_monthly_spending>>
rates == <<monthly_inflation_rate, monthly_etf_rate>>
payments == <<monthly_interest_payment, monthly_loan_repayment, monthly_apartment_spend>>
yearly == <<property_value, property_equity, estimated_total_capital>>

vars == <<p, pc, err, derived, loan, capital, cashflow, rates, rows, year, month,
          payments, monthly_leftover, yearly>>

Init ==
    /\ p \in Inputs
    /\ pc = "call"
    /\ err = None
    /\ mortgage_down_payment = None
    /\ mortgage_total_fees = None
    /\ loan_outstanding = None
    /\ loan_base = None
    /\ invested_capital = None
    /\ etf_capital = None
    /\ current_monthly_income = None
    /\ current_monthly_rent = None
    /\ current_monthly_spending = None
    /\ monthly_inflation_rate = None
    /\ monthly_etf_rate = None
    /\ rows = None
    /\ year = None
    /\ month = None
    /\ property_value = None
    /\ monthly_interest_payment = None
    /\ monthly_loan_repayment = None
    /\ monthly_apartment_spend = None
    /\ monthly_leftover = None
    /\ property_equity = None
    /\ estimated_total_capital = None

(***************************************************************************)
(* Lines 53-92: the derived amounts and the value validations.  The first  *)
(* failing check decides the message; "" when every check passes.          *)
(***************************************************************************)
DownPayment(q) == RMul(q.mortgage_apartment_price, q.mortgage_down_payment_rate)
TotalFees(q) == RMul(q.mortgage_apartment_price, q.mortgage_total_fees_rate)

YearsInvalidOffByOne(q) == q.years < 0

YearsInvalid(q) == q.years <= 0

ValidationError(q, down, fees) ==
    IF RLt(q.mortgage_apartment_price, Zero)
        THEN "mortgage_apartment_price must be >= 0"
    ELSE IF RLt(down, Zero)
        THEN "mortgage_down_payment must be >= 0"
    ELSE IF RLt(fees, Zero)
        THEN "mortgage_total_fees must be >= 0"
    ELSE IF RLt(q.mortgage_apartment_price, down)
        THEN "mortgage_down_payment cannot exceed mortgage_apartment_price"
    ELSE IF RLt(q.initial_capital, RAdd(down, fees))
        THEN "initial_capital is insufficient to cover down payment and fees"
    ELSE IF RLt(q.mortgage_interest_rate, Zero)
        THEN "mortgage_interest_rate must be >= 0"
    ELSE IF RLt(q.mortgage_yearly_repayment_rate, Zero)
        THEN "mortgage_yearly_repayment_rate must be >= 0"
    ELSE IF RLe(q.etf_yearly_return_rate, R(-1, 1))
        THEN "etf_yearly_return_rate must be > -1.0"
    ELSE IF RLe(q.yearly_inflation_rate, R(-1, 1))
        THEN "yearly_inflation_rate must be > -1.0"
    ELSE IF RLe(q.yearly_apartment_raise_rate, R(-1, 1))
        THEN "yearly_apartment_raise_rate must be > -1.0"
    ELSE IF RLe(q.cold_rent_yearly_increase_rate, R(-1, 1))
        THEN "cold_rent_yearly_increase_rate must be > -1.0"
    ELSE IF RLe(q.yearly_income_increase_rate, R(-1, 1))
        THEN "yearly_income_increase_rate must be > -1.0"
    ELSE IF RLt(q.cold_rent_monthly_cost, Zero)
        THEN "cold_rent_monthly_cost must be >= 0"
    ELSE IF RLt(q.monthly_net_income, Zero)
        THEN "monthly_net_income must be >= 0"
    ELSE IF RLt(q.monthly_spending, Zero)
        THEN "monthly_spending must be >= 0"
    ELSE IF YearsInvalid(q)
        THEN "years must be > 0"
    ELSE IF q.mortgate_refinancing_years < 0
        THEN "mortgate_refinancing_years must be >= 0"
    ELSE ""

Validate ==
    /\ pc = "call"
    /\ mortgage_down_payment' = DownPayment(p)
    /\ mortgage_total_fees' = TotalFees(p)
    /\ LET msg == ValidationError(p, DownPayment(p), TotalFees(p))
       IN  IF msg # ""
             THEN /\ pc' = "raised"
                  /\ err' = <<"ValueError", msg>>
             ELSE /\ pc' = "init"
                  /\ err' = err
    /\ UNCHANGED <<p, loan, capital, cashflow, rates, rows, year, month,
                   payments, monthly_leftover, yearly>>

(***************************************************************************)
(* Lines 95-132: the initial loan and capital, the monthly rates and the   *)
(* year-0 row.                                                             *)
(***************************************************************************)
InitialLoanIgnoringDownPayment(price, down) == price

InitialLoan(price, down) == RSub(price, down)

MonthlyRate(yearly_rate) == RSub(Root12(RAdd(One, yearly_rate)), One)

InitialRowWithLoan ==
    [ year                     |-> 0,
      total_loan               |-> InitialLoan(p.mortgage_apartment_price, mortgage_down_payment),
      estimated_total_capital  |-> p.initial_capital,
      monthly_interest_payment |-> Zero,
      monthly_loan_repayment   |-> Zero,
      monthly_rent             |-> p.cold_rent_monthly_cost,
      monthly_apartment_spend  |-> p.cold_rent_monthly_cost,
      monthly_spending         |-> p.monthly_spending,
      monthly_income           |-> p.monthly_net_income,
      monthly_leftover         |-> RSub(RSub(p.monthly_net_income, p.monthly_spending),
                                        p.cold_rent_monthly_cost),
      invested_capital         |-> p.initial_capital,
      property_value           |-> p.mortgage_apartment_price,
      property_equity          |-> Zero ]

InitialRow ==
    [ year                     |-> 0,
      total_loan               |-> Zero,
      estimated_total_capital  |-> p.initial_capital,
      monthly_interest_payment |-> Zero,
      monthly_loan_repayment   |-> Zero,
      monthly_rent             |-> p.cold_rent_monthly_cost,
      monthly_apartment_spend  |-> p.cold_rent_monthly_cost,
      monthly_spending         |-> p.monthly_spending,
      monthly_income           |-> p.monthly_net_income,
      monthly_leftover         |-> RSub(RSub(p.monthly_net_income, p.monthly_spending),
                                        p.cold_rent_monthly_cost),
      invested_capital         |-> p.initial_capital,
      property_value           |-> Zero,
      property_equity          |-> Zero ]

Initialize ==
    /\ pc = "init"
    /\ LET lo == InitialLoan(p.mortgage_apartment_price, mortgage_down_payment)
       IN  IF RLt(lo, Zero)
             THEN /\ pc' = "raised"
                  /\ err' = <<"AssertionError", "loan_outstanding must be >= 0">>
                  /\ loan_outstanding' = lo
                  /\ UNCHANGED <<loan_base, capital, cashflow, rates, rows, year>>
             ELSE /\ pc' = "loop"
                  /\ err' = err
                  /\ loan_outstanding' = lo
                  /\ invested_capital' =
                        RSub(RSub(p.initial_capital, mortgage_down_payment), mortgage_total_fees)
                  /\ etf_capital' =
                        RSub(RSub(p.initial_capital, mortgage_down_payment), mortgage_total_fees)
                  /\ loan_base' = lo
                  /\ current_monthly_income' = p.monthly_net_income
                  /\ current_monthly_rent' = p.cold_rent_monthly_cost
                  /\ current_monthly_spending' = p.monthly_spending
                  /\ monthly_inflation_rate' = MonthlyRate(p.yearly_inflation_rate)
                  /\ monthly_etf_rate' = MonthlyRate(p.etf_yearly_return_rate)
                  /\ rows' = <<InitialRow>>
                  /\ year' = 0
    /\ UNCHANGED <<p, derived, month, payments, monthly_leftover, yearly>>

(***************************************************************************)
(* Line 133 and lines 135-139: the next iteration of the yearly loop, or   *)
(* line 193 when range(1, years + 1) is exhausted.                         *)
(***************************************************************************)
MonthlyPayment(base, rate) == RDiv(RMul(base, rate), Twelve)

ApartmentSpend(rent, interest, repayment) == RAdd(RAdd(rent, interest), repayment)

YearBegin ==
    /\ pc = "loop"
    /\ year < p.years
    /\ year' = year + 1
    /\ property_value' =
          RMul(p.mortgage_apartment_price,
               RPow(RAdd(One, p.yearly_apartment_raise_rate), year'))
    /\ monthly_interest_payment' = MonthlyPayment(loan_base, p.mortgage_interest_rate)
    /\ monthly_loan_repayment' = MonthlyPayment(loan_base, p.mortgage_yearly_repayment_rate)
    /\ monthly_apartment_spend' =
          ApartmentSpend(current_monthly_rent, monthly_interest_payment',
                         monthly_loan_repayment')
    /\ month' = 0
    /\ pc' = "month"
    /\ UNCHANGED <<p, err, derived, loan, capital, cashflow, rates, rows,
                   monthly_leftover, property_equity, estimated_total_capital>>

Return ==
    /\ pc = "loop"
    /\ year >= p.years
    /\ pc' = "returned"
    /\ UNCHANGED <<p, err, derived, loan, capital, cashflow, rates, rows, year, month,
                   payments, monthly_leftover, yearly>>

(***************************************************************************)
(* Lines 142-152: one iteration of the monthly loop.                       *)
(***************************************************************************)
LoanAfterRepaymentAdded(outstanding, repayment) == RAdd(outstanding, repayment)

LoanAfterRepayment(outstanding, repayment) == RSub(outstanding, repayment)

MonthStep ==
    /\ pc = "month"
    /\ month < MonthsPerYear
    /\ monthly_leftover' =
          RSub(RSub(current_monthly_income, monthly_apartment_spend),
               current_monthly_spending)
    /\ invested_capital' = RAdd(invested_capital, monthly_leftover')
    /\ etf_capital' =
          RAdd(RMul(etf_capital, RAdd(One, monthly_etf_rate)), monthly_leftover')
    /\ current_monthly_spending' =
          RMul(current_monthly_spending, RAdd(One, monthly_inflation_rate))
    /\ loan_outstanding' = LoanAfterRepayment(loan_outstanding, monthly_loan_repayment)
    /\ month' = month + 1
    /\ pc' = IF month' = MonthsPerYear THEN "yearend" ELSE "month"
    /\ UNCHANGED <<p, err, derived, loan_base, current_monthly_income,
                   current_monthly_rent, rates, rows, year, payments, yearly>>

(***************************************************************************)
(* Lines 155-191: the year's row, next year's income and rent, the         *)
(* refinancing test and the payments for the next year.                    *)
(***************************************************************************)
PropertyEquityOnBase == RSub(property_value, loan_base)

PropertyEquity == RSub(property_value, loan_outstanding)

YearRow ==
    [ year                     |-> year,
      total_loan               |-> loan_outstanding,
      estimated_total_capital  |-> RAdd(PropertyEquity, etf_capital),
      monthly_interest_payment |-> monthly_interest_payment,
      monthly_loan_repayment   |-> monthly_loan_repayment,
      monthly_rent             |-> current_monthly_rent,
      monthly_apartment_spend  |-> monthly_apartment_spend,
      monthly_spending         |-> current_monthly_spending,
      monthly_income           |-> current_monthly_income,
      monthly_leftover         |-> monthly_leftover,
      invested_capital         |-> invested_capital,
      property_value           |-> property_value,
      property_equity          |-> PropertyEquity ]

\* `year % mortgate_refinancing_years` is evaluated only when the left operand of
\* `and` is true, and raises ZeroDivisionError for a zero divisor.
RefinancingRaises ==
    /\ RLt(Zero, loan_outstanding)
    /\ p.mortgate_refinancing_years = 0

RefinancingDueWithoutLoanTest ==
    /\ p.mortgate_refinancing_years > 0
    /\ year % p.mortgate_refinancing_years = 0

RefinancingDueOffByOne ==
    /\ RLt(Zero, loan_outstanding)
    /\ (year + 1) % p.mortgate_refinancing_years = 0

RefinancingDue ==
    /\ RLt(Zero, loan_outstanding)
    /\ year % p.mortgate_refinancing_years = 0

YearEnd ==
    /\ pc = "yearend"
    /\ ~RefinancingRaises
    /\ property_equity' = PropertyEquity
    /\ estimated_total_capital' = RAdd(PropertyEquity, etf_capital)
    /\ rows' = Append(rows, YearRow)
    /\ current_monthly_income' =
          RMul(current_monthly_income, RAdd(One, p.yearly_income_increase_rate))
    /\ current_monthly_rent' =
          RMul(current_monthly_rent, RAdd(One, p.cold_rent_yearly_increase_rate))
    /\ loan_base' = IF RefinancingDue THEN loan_outstanding ELSE loan_base
    /\ monthly_interest_payment' = MonthlyPayment(loan_base', p.mortgage_interest_rate)
    /\ monthly_loan_repayment' = MonthlyPayment(loan_base', p.mortgage_yearly_repayment_rate)
    /\ monthly_apartment_spend' =
          ApartmentSpend(current_monthly_rent', monthly_interest_payment',
                         monthly_loan_repayment')
    /\ pc' = "loop"
    /\ UNCHANGED <<p, err, derived, loan_outstanding, capital, current_monthly_spending,
                   rates, year, month, monthly_leftover, property_value>>

YearEndZeroDivision ==
    /\ pc = "yearend"
    /\ RefinancingRaises
    /\ property_equity' = PropertyEquity
    /\ estimated_total_capital' = RAdd(PropertyEquity, etf_capital)
    /\ rows' = Append(rows, YearRow)
    /\ current_monthly_income' =
          RMul(current_monthly_income, RAdd(One, p.yearly_income_increase_rate))
    /\ current_monthly_rent' =
          RMul(current_monthly_rent, RAdd(One, p.cold_rent_yearly_increase_rate))
    /\ pc' = "raised"
    /\ err' = <<"ZeroDivisionError", "integer division or modulo by zero">>
    /\ UNCHANGED <<p, derived, loan, capital, current_monthly_spending, rates, year,
                   month, payments, monthly_leftover, property_value>>

Next ==
    \/ Validate
    \/ Initialize
    \/ YearBegin
    \/ MonthStep
    \/ YearEnd
    \/ YearEndZeroDivision
    \/ Return

Spec == Init /\ [][Next]_vars

(***************************************************************************)
(* Vocabulary of the properties.                                           *)
(***************************************************************************)
MinusOne == <<-1, 1>>

\* Every check of the input validator passes.
PassesValidation ==
    /\ RLe(Zero, p.mortgage_apartment_price)
    /\ RLe(Zero, DownPayment(p))
    /\ RLe(Zero, TotalFees(p))
    /\ RLe(DownPayment(p), p.mortgage_apartment_price)
    /\ RLe(RAdd(DownPayment(p), TotalFees(p)), p.initial_capital)
    /\ RLe(Zero, p.mortgage_interest_rate)
    /\ RLe(Zero, p.mortgage_yearly_repayment_rate)
    /\ RLt(MinusOne, p.etf_yearly_return_rate)
    /\ RLt(MinusOne, p.yearly_inflation_rate)
    /\ RLt(MinusOne, p.yearly_apartment_raise_rate)
    /\ RLt(MinusOne, p.cold_rent_yearly_increase_rate)
    /\ RLt(MinusOne, p.yearly_income_increase_rate)
    /\ RLe(Zero, p.cold_rent_monthly_cost)
    /\ RLe(Zero, p.monthly_net_income)
    /\ RLe(Zero, p.monthly_spending)
    /\ p.years > 0
    /\ p.mortgate_refinancing_years >= 0

Finished == pc \in {"returned", "raised"}

\* The loan with zero repayment: the initial loan, in every year.
ZeroRepaymentLoan == RSub(p.mortgage_apartment_price, DownPayment(p))

\* The refinancing condition as the specification words it.
RefinancingCondition ==
    /\ RLt(Zero, loan_outstanding)
    /\ p.mortgate_refinancing_years > 0
    /\ year % p.mortgate_refinancing_years = 0

(***************************************************************************)
(* C1: for every parameter set that passes validation the call returns     *)
(* exactly years + 1 rows, and the i-th row (0-based) has year = i.        *)
(***************************************************************************)
C1_RecordCount ==
    (PassesValidation /\ Finished) =>
        /\ pc = "returned"
        /\ Len(rows) = p.years + 1
        /\ \A i \in 1 .. Len(rows) : rows[i].year = i - 1

(***************************************************************************)
(* C2: for every parameter set that passes validation the engine raises    *)
(* no error, mortgate_refinancing_years = 0 included.                      *)
(***************************************************************************)
C2_NoEngineError == PassesValidation => err = None

(***************************************************************************)
(* C3: a parameter set that violates a validation check makes the call     *)
(* fail with the invalid-parameter error (ValueError) before any           *)
(* simulation state or row exists.                                         *)
(***************************************************************************)
C3_InvalidFailsFast ==
    (~PassesValidation /\ pc # "call") =>
        /\ pc = "raised"
        /\ err # None
        /\ err[1] = "ValueError"
        /\ loan_outstanding = None
        /\ loan_base = None
        /\ etf_capital = None
        /\ invested_capital = None
        /\ rows = None

C3_Witness ==
    /\ pc = "raised"
    /\ RLt(p.mortgage_apartment_price, DownPayment(p))
    /\ p.years > 0
    /\ rows = None

(***************************************************************************)
(* C4 as written: with a positive repayment rate and a base not above its  *)
(* initial value, total_loan is non-increasing year over year until it     *)
(* reaches zero and never goes below the zero-repayment value.             *)
(***************************************************************************)
C4_Original ==
    (rows # None /\ RLt(Zero, p.mortgage_yearly_repayment_rate)
                 /\ RLe(loan_base, ZeroRepaymentLoan)) =>
        /\ \A i \in 2 .. Len(rows) - 1 :
              RLt(Zero, rows[i].total_loan) =>
                  RLe(rows[i + 1].total_loan, rows[i].total_loan)
        /\ \A i \in 2 .. Len(rows) : RLe(ZeroRepaymentLoan, rows[i].total_loan)

(***************************************************************************)
(* C4 as amended: with a positive repayment rate, total_loan is            *)
(* non-increasing over the rows of years 1..years and never goes above the *)
(* zero-repayment value.                                                   *)
(***************************************************************************)
C4_LoanMonotone ==
    (rows # None /\ RLt(Zero, p.mortgage_yearly_repayment_rate)
                 /\ RLe(loan_base, ZeroRepaymentLoan)) =>
        /\ \A i \in 2 .. Len(rows) - 1 :
              RLe(rows[i + 1].total_loan, rows[i].total_loan)
        /\ \A i \in 2 .. Len(rows) : RLe(rows[i].total_loan, ZeroRepaymentLoan)

C4_Witness ==
    /\ pc = "returned"
    /\ RLt(Zero, p.mortgage_yearly_repayment_rate)
    /\ Len(rows) >= 4
    /\ RLt(rows[3].total_loan, rows[2].total_loan)
    /\ RLt(rows[4].total_loan, rows[3].total_loan)
    /\ RLt(rows[2].total_loan, ZeroRepaymentLoan)

(***************************************************************************)
(* C5: in every row of a year >= 1, property_equity is property_value      *)
(* minus total_loan, property_value is the price compounded over `year`    *)
(* years, and total_loan is the loan after that year's 12 repayments.      *)
(***************************************************************************)
C5_EquityIdentity ==
    rows # None =>
        \A i \in 2 .. Len(rows) :
            /\ rows[i].property_equity =
                  RSub(rows[i].property_value, rows[i].total_loan)
            /\ rows[i].property_value =
                  RMul(p.mortgage_apartment_price,
                       RPow(RAdd(One, p.yearly_apartment_raise_rate), rows[i].year))
            /\ rows[i].total_loan =
                  RSub(IF i = 2 THEN ZeroRepaymentLoan ELSE rows[i - 1].total_loan,
                       RMul(Twelve, rows[i].monthly_loan_repayment))

C5_Witness ==
    /\ pc = "returned"
    /\ Len(rows) >= 3
    /\ p.yearly_apartment_raise_rate = One
    /\ RLt(Zero, rows[3].total_loan)
    /\ RLt(rows[3].total_loan, rows[2].total_loan)
    /\ rows[3].property_equity = RSub(rows[3].property_value, rows[3].total_loan)

(***************************************************************************)
(* C6: the year-0 row comes from the arguments alone, before any monthly   *)
(* step: estimated_total_capital = initial_capital, total_loan = 0 and     *)
(* property_value = 0, also when the initial loan is positive.             *)
(***************************************************************************)
C6_YearZeroRow ==
    rows # None =>
        /\ rows[1].year = 0
        /\ rows[1].estimated_total_capital = p.initial_capital
        /\ rows[1].total_loan = Zero
        /\ rows[1].property_value = Zero
        /\ (Len(rows) = 1 /\ year = 0) =>
              (month = None /\ loan_outstanding = ZeroRepaymentLoan)

C6_Witness ==
    /\ pc = "returned"
    /\ RLt(Zero, ZeroRepaymentLoan)
    /\ Len(rows) >= 2
    /\ rows[1].total_loan = Zero
    /\ RLt(Zero, rows[2].total_loan)

(***************************************************************************)
(* C7: with mortgage_down_payment_rate = 1.0 and otherwise valid           *)
(* arguments every row has total_loan = 0 and zero monthly interest and    *)
(* repayment, for every mortgate_refinancing_years >= 0, and the call      *)
(* does not fail.                                                          *)
(***************************************************************************)
C7_FullCashPurchase ==
    (p.mortgage_down_payment_rate = One /\ PassesValidation) =>
        /\ pc # "raised"
        /\ rows # None =>
              \A i \in 1 .. Len(rows) :
                  /\ rows[i].total_loan = Zero
                  /\ rows[i].monthly_interest_payment = Zero
                  /\ rows[i].monthly_loan_repayment = Zero

C7_Witness ==
    /\ pc = "returned"
    /\ p.mortgage_down_payment_rate = One
    /\ RLt(Zero, p.mortgage_apartment_price)
    /\ RLt(Zero, p.mortgage_yearly_repayment_rate)
    /\ p.mortgate_refinancing_years = 0
    /\ p.years >= 2
    /\ Len(rows) = p.years + 1

(***************************************************************************)
(* C8: at the end of year y, loan_base becomes loan_outstanding exactly    *)
(* when loan_outstanding > 0, mortgate_refinancing_years > 0 and           *)
(* y mod mortgate_refinancing_years = 0, and is unchanged otherwise;       *)
(* during the 12 monthly steps loan_base and the monthly interest and      *)
(* repayment derived from it stay the same.                                *)
(***************************************************************************)
C8_RefinancingRule ==
    [][ /\ pc = "yearend" =>
              /\ year \in 1 .. p.years
              /\ loan_base' = IF RefinancingCondition THEN loan_outstanding ELSE loan_base
              /\ (~RefinancingCondition) => loan_base' = loan_base
        /\ pc = "month" =>
              /\ loan_base' = loan_base
              /\ monthly_interest_payment' = monthly_interest_payment
              /\ monthly_loan_repayment' = monthly_loan_repayment
              /\ monthly_interest_payment' =
                    RDiv(RMul(loan_base, p.mortgage_interest_rate), Twelve)
              /\ monthly_loan_repayment' =
                    RDiv(RMul(loan_base, p.mortgage_yearly_repayment_rate), Twelve)
      ]_vars

C8_Witness ==
    /\ pc = "loop"
    /\ year \in 2 .. p.years
    /\ p.mortgate_refinancing_years = 2
    /\ year % p.mortgate_refinancing_years = 0
    /\ RLt(Zero, loan_outstanding)
    /\ loan_base = loan_outstanding
    /\ RLt(loan_base, ZeroRepaymentLoan)

(***************************************************************************)
(* C9: loan_outstanding <= loan_base in every state, loan_base never       *)
(* increases, and the monthly interest and repayment of the rows of years  *)
(* 1..years are non-increasing.                                            *)
(***************************************************************************)
C9_PaymentsNeverIncrease ==
    /\ [](loan_base # None => RLe(loan_outstanding, loan_base))
    /\ [][loan_base # None => RLe(loan_base', loan_base)]_vars
    /\ [](rows # None =>
            \A i \in 2 .. Len(rows) - 1 :
                /\ RLe(rows[i + 1].monthly_interest_payment,
                       rows[i].monthly_interest_payment)
                /\ RLe(rows[i + 1].monthly_loan_repayment,
                       rows[i].monthly_loan_repayment))

C9_Witness ==
    /\ pc = "returned"
    /\ RLt(loan_base, ZeroRepaymentLoan)
    /\ RLt(loan_outstanding, loan_base)
    /\ \E i \in 2 .. Len(rows) - 1 :
          /\ RLt(rows[i + 1].monthly_loan_repayment, rows[i].monthly_loan_repayment)
          /\ RLt(rows[i + 1].monthly_interest_payment, rows[i].monthly_interest_payment)

(***************************************************************************)
(* C10: loan_outstanding >= 0 in every state of a run on valid input.      *)
(***************************************************************************)
C10_LoanNonNegative == loan_outstanding # None => RLe(Zero, loan_outstanding)

====
